---- MODULE Spec2Model ----
(***************************************************************************)
(* KeyedSet<T> (src/src/keyed_set.rs): a HashMap<Key<T>, T> whose keys are *)
(* minted by the set itself from a usize counter.                          *)
(*                                                                         *)
(* Two instances, "A" and "B", of the same element type are modelled so    *)
(* that a key minted by one can be presented to the other.  Spec drives    *)
(* instance "A" alone through the whole range of the counter, the overflow *)
(* of `self.next.0 += 1` included.  SpecCross also mints keys on "B" and   *)
(* presents them to "A"; it stops inserting below the overflow.            *)
(***************************************************************************)
EXTENDS Integers, Sequences, FiniteSets, TLC

\* usize::MAX, scaled down: identities are 0..UsizeMax.
UsizeMax == 2

\* In Spec, the inserts an instance makes after its counter has wrapped.
MaxReissue == 1

\* In SpecCross an instance stops inserting once its counter reaches this.
MaxCrossNext == 2

\* The element values (T = &str in the test of keyed_set.rs).
Values == {"Hello!", "Bye!"}

\* The KeyedSet instances.
Arenas == {"A", "B"}

VARIABLES
    map,              \* map[a]: the HashMap<Key<T>, T> of instance a
    next,             \* next[a]: the Key<T> the next insert of a will return
    panicked,         \* the program has panicked ("attempt to add with overflow")
    issued,           \* history: issued[a] = the keys insert has returned on a
    removed,          \* history: removed[a] = the keys for which remove returned a value
    last              \* the last call and what it returned

vars == <<map, next, panicked, issued, removed, last>>

----------------------------------------------------------------------------
\* Option<T>

None == <<>>

Some(v) == <<v>>

----------------------------------------------------------------------------
\* Key<T>(usize, PhantomData<*const T>).  The PhantomData carries no data.
\* `origin` is a history field that is not in the code: the instance whose
\* insert minted the key.  No operation of the code reads it.

Key(n, a) == [id |-> n, origin |-> a]

\* Key::eq as it would be if keys of different instances were told apart.
KeyEq_Origin(k1, k2) == k1.id = k2.id /\ k1.origin = k2.origin

\* Key::eq

KeyEq(k1, k2) == k1.id = k2.id

\* usize::hash into the map's Hasher, as the bucket it ends in: a hash that
\* is not injective, so that a lookup needs Key::eq as well.
HashUsize(n) == n \div 2

\* Key::hash as it would be if the minting instance were hashed as well.
KeyHash_Origin(k) == <<HashUsize(k.id), k.origin>>

\* Key::hash
KeyHash(k) == HashUsize(k.id)

\* Key::clone (and Copy): both fields copied; the copy is the same key.
KeyClone(k) == [id |-> k.id, origin |-> k.origin]

\* usize::cmp
UsizeCmp(m, n) == IF m < n THEN "Less" ELSE IF m = n THEN "Equal" ELSE "Greater"

\* Key::cmp
KeyCmp(k1, k2) == UsizeCmp(k1.id, k2.id)

\* Key::partial_cmp
KeyPartialCmp(k1, k2) == Some(UsizeCmp(k1.id, k2.id))

----------------------------------------------------------------------------
\* std::collections::HashMap<Key<T>, T>, as a function from the stored keys
\* to their values.  A lookup compares hashes, then keys with Key::eq.

EmptyMap == [k \in {} |-> None]

\* A lookup that trusts the hash and skips Key::eq.
HashMapFind_HashOnly(m, key) ==
    {k \in DOMAIN m : KeyHash(k) = KeyHash(key)}

\* The stored keys a lookup of `key` finds.
HashMapFind(m, key) ==
    {k \in DOMAIN m : KeyHash(k) = KeyHash(key) /\ KeyEq(k, key)}

HashMapGet(m, key) ==
    LET hits == HashMapFind(m, key)
    IN  IF hits = {} THEN None ELSE Some(m[CHOOSE k \in hits : TRUE])

\* HashMap::insert keeps the stored key and replaces the value of an equal key.
HashMapInsert(m, key, value) ==
    LET hits == HashMapFind(m, key)
    IN  IF hits = {}
        THEN [k \in DOMAIN m \cup {key} |-> IF k = key THEN value ELSE m[k]]
        ELSE [k \in DOMAIN m |-> IF k \in hits THEN value ELSE m[k]]

\* A remove that finds the entry and leaves it in the table.
HashMapRemove_Keep(m, key) == m

\* HashMap::remove
HashMapRemove(m, key) ==
    [k \in DOMAIN m \ HashMapFind(m, key) |-> m[k]]

HashMapLen(m) == Cardinality(DOMAIN m)

\* A pass that stops one entry short.
HashMapPasses_SkipLast(m) ==
    LET n == Cardinality(DOMAIN m)
        orders == {f \in [1..n -> DOMAIN m] :
                     \A i, j \in 1..n : i # j => f[i] # f[j]}
    IN  {[i \in 1..(IF n > 1 THEN n - 1 ELSE n) |-> <<f[i], m[f[i]]>>] : f \in orders}

\* One full pass of hash_map::Iter over m: every stored pair once, in an
\* order the hash table chooses.
HashMapPasses(m) ==
    LET n == Cardinality(DOMAIN m)
        orders == {f \in [1..n -> DOMAIN m] :
                     \A i, j \in 1..n : i # j => f[i] # f[j]}
    IN  {[i \in 1..n |-> <<f[i], m[f[i]]>>] : f \in orders}

----------------------------------------------------------------------------
\* KeyedSet<T>

\* The keys a caller can hold: Key's fields are private, so every key comes
\* from an insert on some instance (and is copied freely after).
Handles == UNION {issued[a] : a \in Arenas}

\* A len that reports the counter instead of the table's size.
len_Counter(a) == next[a].id

\* KeyedSet::len
len(a) == HashMapLen(map[a])

\* KeyedSet::get, as a function of the state.
get(a, key) == HashMapGet(map[a], key)

Init ==
    /\ map = [a \in Arenas |-> EmptyMap]
    /\ next = [a \in Arenas |-> Key(0, a)]
    /\ panicked = FALSE
    /\ issued = [a \in Arenas |-> {}]
    /\ removed = [a \in Arenas |-> {}]
    /\ last = [op |-> "new"]

\* A counter that is read and never advanced.
NextId_Stuck(n) == n


\* `self.next.0 += 1` when it does not panic.
NextId(n) == (n + 1) % (UsizeMax + 1)

\* KeyedSet::insert, generate_key included.  At next = usize::MAX the
\* addition overflows: a build with overflow checks panics there (before the
\* map is touched), a build without them wraps to 0.
Insert(a, value) ==
    /\ ~panicked
    /\ LET key == next[a]
       IN  \/ /\ key.id = UsizeMax
              /\ panicked' = TRUE
              /\ last' = [op |-> "insert", arena |-> a, value |-> value,
                          panic |-> TRUE]
              /\ UNCHANGED <<map, next, issued>>
           \/ /\ next' = [next EXCEPT ![a] = Key(NextId(key.id), a)]
              /\ map' = [map EXCEPT ![a] = HashMapInsert(@, key, value)]
              /\ issued' = [issued EXCEPT ![a] = @ \cup {key}]
              /\ last' = [op |-> "insert", arena |-> a, value |-> value,
                          panic |-> FALSE, ret |-> key]
              /\ UNCHANGED panicked
    /\ UNCHANGED removed

\* KeyedSet::get
Get(a, key) ==
    /\ ~panicked
    /\ last' = [op |-> "get", arena |-> a, key |-> key,
                ret |-> HashMapGet(map[a], key)]
    /\ UNCHANGED <<map, next, panicked, issued, removed>>

\* A get_mut that takes the entry out of the table (self.map.remove for
\* self.map.get_mut).
GetMut_Removes(a, key, write) ==
    /\ ~panicked
    /\ last' = [op |-> "get_mut", arena |-> a, key |-> key,
                ret |-> HashMapGet(map[a], key), write |-> write]
    /\ map' = [map EXCEPT ![a] = HashMapRemove(@, key)]
    /\ UNCHANGED <<next, panicked, issued, removed>>

\* KeyedSet::get_mut, and what the caller does with the &mut T it returns:
\* write = None leaves the value alone, write = Some(w) assigns w through it.
GetMut(a, key, write) ==
    /\ ~panicked
    /\ LET ret == HashMapGet(map[a], key)
       IN  /\ last' = [op |-> "get_mut", arena |-> a, key |-> key,
                       ret |-> ret, write |-> write]
           /\ map' = IF ret # None /\ write # None
                     THEN [map EXCEPT ![a] = HashMapInsert(@, key, write[1])]
                     ELSE map
    /\ UNCHANGED <<next, panicked, issued, removed>>

\* A remove that hands the last identity back to the counter.
Remove_Rewinds(a, key) ==
    /\ ~panicked
    /\ LET ret == HashMapGet(map[a], key)
       IN  /\ last' = [op |-> "remove", arena |-> a, key |-> key, ret |-> ret]
           /\ removed' = IF ret # None
                         THEN [removed EXCEPT ![a] = @ \cup {key}]
                         ELSE removed
           /\ next' = IF ret # None /\ next[a].id > 0
                      THEN [next EXCEPT ![a] = Key(next[a].id - 1, a)]
                      ELSE next
    /\ map' = [map EXCEPT ![a] = HashMapRemove(@, key)]
    /\ UNCHANGED <<panicked, issued>>

\* KeyedSet::remove
Remove(a, key) ==
    /\ ~panicked
    /\ LET ret == HashMapGet(map[a], key)
       IN  /\ last' = [op |-> "remove", arena |-> a, key |-> key, ret |-> ret]
           /\ removed' = IF ret # None
                         THEN [removed EXCEPT ![a] = @ \cup {key}]
                         ELSE removed
    /\ map' = [map EXCEPT ![a] = HashMapRemove(@, key)]
    /\ UNCHANGED <<next, panicked, issued>>

\* KeyedSet::iter (and IntoIterator for &KeyedSet), driven to its end.
Iter(a) ==
    /\ ~panicked
    /\ \E pass \in HashMapPasses(map[a]) :
          last' = [op |-> "iter", arena |-> a, ret |-> pass]
    /\ UNCHANGED <<map, next, panicked, issued, removed>>

\* KeyedSet::iter_mut (and IntoIterator for &mut KeyedSet), driven to its end;
\* write = Some(w) is the caller assigning w through the first &mut T that the
\* pass yields (any entry can be the first one).
IterMut(a, write) ==
    /\ ~panicked
    /\ \E pass \in HashMapPasses(map[a]) :
          /\ last' = [op |-> "iter_mut", arena |-> a, ret |-> pass]
          /\ map' = IF write = None \/ pass = <<>> THEN map
                    ELSE [map EXCEPT ![a] = HashMapInsert(@, pass[1][1], write[1])]
    /\ UNCHANGED <<next, panicked, issued, removed>>

\* A call of KeyedSet::len
LenOp(a) ==
    /\ ~panicked
    /\ last' = [op |-> "len", arena |-> a, ret |-> len(a)]
    /\ UNCHANGED <<map, next, panicked, issued, removed>>

\* The writes a caller can make through one &mut T.
Writes == {None} \cup {Some(w) : w \in Values}

\* The counter of a has wrapped: it has returned the key usize::MAX.
Wrapped(a) == Key(UsizeMax, a) \in issued[a]

\* One instance, used through the whole range of its counter and for
\* MaxReissue inserts more.
Next ==
    \/ \E v \in Values :
          /\ Wrapped("A") => next["A"].id < MaxReissue
          /\ Insert("A", v)
    \/ \E k \in Handles : Get("A", k)
    \/ \E k \in Handles, w \in Writes : GetMut("A", k, w)
    \/ \E k \in Handles : Remove("A", k)
    \/ Iter("A")
    \/ \E w \in Writes : IterMut("A", w)
    \/ LenOp("A")

Spec == Init /\ [][Next]_vars

\* The bound on the counter in SpecCross.
CrossLimit == IF MaxCrossNext < UsizeMax THEN MaxCrossNext ELSE UsizeMax

\* Two instances of one element type.  Both mint keys and remove entries, and
\* the keys of both are presented to the lookups of "A".  What "B" stores
\* is never read by "A", so "B" inserts one value only.
NextCross ==
    \/ \E v \in Values : next["A"].id < CrossLimit /\ Insert("A", v)
    \/ next["B"].id < CrossLimit /\ Insert("B", "Bye!")
    \/ \E k \in Handles : Get("A", k)
    \/ \E k \in Handles, w \in Writes : GetMut("A", k, w)
    \/ \E a \in Arenas, k \in Handles : Remove(a, k)

SpecCross == Init /\ [][NextCross]_vars

----------------------------------------------------------------------------
\* The keys of a that are equal (Key::eq) to none that a has issued.
NeverIssued(a, h) == \A k \in issued[a] : ~KeyEq(k, h)

\* The identities stored in instance a.
LiveIds(a) == {k.id : k \in DOMAIN map[a]}

\* The value a stores at identity n (n \in LiveIds(a)).
ValueAt(a, n) == map[a][CHOOSE k \in DOMAIN map[a] : k.id = n]

\* The step is a call of one of `ops` that returned.
Called(ops) == last'.op \in ops

\* C1 (removal finality): once remove(h) has returned a value, get(h) is empty
\* in every later state, whatever inserts and removes follow.
C1_RemovalFinality ==
    \A h \in removed["A"] : get("A", h) = None

\* C2 (round trip): get(h) right after h = insert(v) is v, and the value got
\* at a live h stays what it is over every step that is not remove(h), a
\* get_mut(h) or an iter_mut.
C2_RoundTrip ==
    [][ /\ (Called({"insert"}) /\ ~last'.panic)
            => HashMapGet(map'[last'.arena], last'.ret) = Some(last'.value)
        /\ \A h \in Handles :
              \/ get("A", h) = None
              \/ get("A", h)' = get("A", h)
              \/ Called({"remove", "get_mut"}) /\ KeyEq(last'.key, h)
              \/ Called({"iter_mut"}) ]_vars

\* C3 (uniqueness): the key an insert returns is unequal to every key the
\* instance has returned before.
C3_Uniqueness ==
    [][ (Called({"insert"}) /\ ~last'.panic)
            => \A k \in issued[last'.arena] : ~KeyEq(k, last'.ret) ]_vars

\* C4 (size consistency): in every state len() is the number of keys for which
\* get returns a value, and a call of len returns that number.
C4_SizeConsistency ==
    /\ len("A") = Cardinality({h \in Handles : get("A", h) # None})
    /\ (last.op = "len" /\ last.arena = "A") => last.ret = len("A")

C4_Witness ==
    /\ last.op = "len"
    /\ last.ret = 2
    /\ removed["A"] # {}

\* C5 (unknown handle): get, get_mut and remove of a key the instance never
\* issued (its identity is at or above the counter) return None without a
\* panic and leave the entries, the size and the counter as they were.
C5_UnknownHandle ==
    [][ \A a \in Arenas :
          (/\ Called({"get", "get_mut", "remove"})
           /\ last'.arena = a
           /\ NeverIssued(a, last'.key))
          => /\ last'.key.id >= next[a].id
             /\ last'.ret = None
             /\ ~panicked'
             /\ map'[a] = map[a]
             /\ len(a)' = len(a)
             /\ next'[a] = next[a] ]_vars

C5_Witness ==
    /\ last.op = "remove"
    /\ last.arena = "A"
    /\ NeverIssued("A", last.key)
    /\ len("A") = 1

\* C6 as the specification states it (cross-arena handles): get and get_mut
\* of "A" return None for every key that "B" minted.
C6_CrossArenaEmpty ==
    (/\ last.op \in {"get", "get_mut"}
     /\ last.arena = "A"
     /\ last.key.origin = "B")
    => last.ret = None

\* C6, amended: get and get_mut of "A", given a key that "B" minted, return
\* None exactly when "A" stores nothing at the key's identity, and otherwise
\* return the value "A" stores at that identity.
C6_CrossArenaByIdentity ==
    [][ (/\ Called({"get", "get_mut"})
         /\ last'.arena = "A"
         /\ last'.key.origin = "B")
        => IF last'.key.id \in LiveIds("A")
           THEN last'.ret = Some(ValueAt("A", last'.key.id))
           ELSE last'.ret = None ]_vars

C6_Witness ==
    /\ last.op = "get"
    /\ last.arena = "A"
    /\ last.key.origin = "B"
    /\ last.key \in DOMAIN map["B"]
    /\ last.ret # None

\* The pairs a pass has yielded.
Yielded(pass) == {pass[i] : i \in DOMAIN pass}

\* C7 (iteration completeness): one full pass of iter or iter_mut yields every
\* key that get resolves exactly once, with the value get returns for it, and
\* no key that get does not resolve; a pass that follows a pass of iter
\* yields the same set of pairs.
C7_IterationComplete ==
    [][ Called({"iter", "iter_mut"}) =>
          LET a == last'.arena
              pass == last'.ret
          IN  /\ \A h \in Handles :
                    get(a, h) # None =>
                       /\ Cardinality({i \in DOMAIN pass : KeyEq(pass[i][1], h)}) = 1
                       /\ \A i \in DOMAIN pass :
                             KeyEq(pass[i][1], h) => Some(pass[i][2]) = get(a, h)
              /\ \A i \in DOMAIN pass :
                    /\ pass[i][1] \in Handles
                    /\ get(a, pass[i][1]) # None
              /\ (last.op = "iter" /\ last.arena = a)
                    => Yielded(pass) = Yielded(last.ret) ]_vars

C7_Witness ==
    /\ last.op = "iter_mut"
    /\ Len(last.ret) = 2
    /\ \E h \in removed["A"] : get("A", h) = None
    /\ \E i \in DOMAIN last.ret : map["A"][last.ret[i][1]] # last.ret[i][2]

\* C8 (remove): remove(h) of a live h returns the value stored at h and the
\* size drops by one; remove(h) of any other h returns None and leaves the
\* size and the entries as they were; the counter is never changed.
C8_Remove ==
    [][ Called({"remove"}) =>
          LET a == last'.arena
              h == last'.key
          IN  /\ next'[a] = next[a]
              /\ IF h.id \in LiveIds(a)
                 THEN /\ last'.ret = Some(ValueAt(a, h.id))
                      /\ HashMapLen(map'[a]) = len(a) - 1
                 ELSE /\ last'.ret = None
                      /\ HashMapLen(map'[a]) = len(a)
                      /\ map'[a] = map[a] ]_vars

C8_Witness ==
    /\ last.op = "remove"
    /\ last.ret # None
    /\ len("A") = 1

\* The counter of a is exhausted: it stands at usize::MAX or has passed it.
Exhausted(a) == next[a].id = UsizeMax \/ Wrapped(a)

\* C9 (insert): short of counter exhaustion an insert returns a key (it does
\* not panic), advances the counter by exactly one and increases the size by
\* exactly one.
C9_Insert ==
    [][ \A a \in Arenas :
          (Called({"insert"}) /\ last'.arena = a /\ ~Exhausted(a))
          => /\ ~last'.panic
             /\ ~panicked'
             /\ last'.ret = next[a]
             /\ next'[a].id = next[a].id + 1
             /\ len(a)' = len(a) + 1 ]_vars

C9_Witness ==
    /\ last.op = "insert"
    /\ ~last.panic
    /\ last.ret.id = 1
    /\ ~Wrapped("A")
    /\ removed["A"] # {}

\* C10 (handle comparison): for the keys callers hold, of either instance,
\* Key::eq holds iff the identities are equal, Key::cmp and partial_cmp are
\* the integer order of the identities, equal keys hash alike, a copy equals
\* its original, and a copy kept as the key of an external HashMap is found
\* by, and resolves in the set like, the original.
C10_KeyIdentityOnly ==
    \A k1, k2 \in Handles :
       /\ KeyEq(k1, k2) <=> (k1.id = k2.id)
       /\ (KeyCmp(k1, k2) = "Less") <=> (k1.id < k2.id)
       /\ (KeyCmp(k1, k2) = "Equal") <=> (k1.id = k2.id)
       /\ (KeyCmp(k1, k2) = "Greater") <=> (k1.id > k2.id)
       /\ KeyPartialCmp(k1, k2) = Some(KeyCmp(k1, k2))
       /\ KeyEq(k1, k2) => KeyHash(k1) = KeyHash(k2)
       /\ KeyEq(KeyClone(k1), k1)
       /\ get("A", KeyClone(k1)) = get("A", k1)
       /\ LET selection == HashMapInsert(EmptyMap, KeyClone(k1), "pos")
          IN  HashMapGet(selection, k2) =
                 IF k1.id = k2.id THEN Some("pos") ELSE None

C10_Witness ==
    \E k1, k2, k3 \in Handles :
       /\ k1.id = k2.id
       /\ k1.origin # k2.origin
       /\ k3.id # k1.id
       /\ get("A", k1) # None

\* C11 (counter exhaustion): an insert that returns never takes the counter
\* from usize::MAX back round to a smaller value, never returns a key equal to
\* one issued before, and never replaces the value of a live entry.
C11_NoSilentWrap ==
    [][ \A a \in Arenas :
          (Called({"insert"}) /\ last'.arena = a /\ ~last'.panic)
          => /\ next'[a].id >= next[a].id
             /\ \A k \in issued[a] : ~KeyEq(k, last'.ret)
             /\ get(a, last'.ret) = None ]_vars

\* C12 (identity sequence): a new instance's counter is 0; the k-th insert
\* returns identity k-1, whatever removes came between; the counter never
\* decreases; the identities issued so far are exactly 0..counter-1; and each
\* key returned compares greater than every key returned before.
C12_IdentitySequence ==
    [][ \A a \in Arenas :
          /\ last.op = "new" => next[a].id = 0
          /\ next'[a].id >= next[a].id
          /\ {k.id : k \in issued[a]} = 0..(next[a].id - 1)
          /\ (Called({"insert"}) /\ last'.arena = a /\ ~last'.panic)
             => /\ last'.ret.id = Cardinality(issued[a])
                /\ \A k \in issued[a] : KeyCmp(last'.ret, k) = "Greater" ]_vars

\* The part of C13 that holds in every state, the counter wrapped or not: an
\* insert and a remove leave get(k) as it was for every key k unequal to the
\* key returned or removed.
C13_FrameOfOtherKeys ==
    [][ \A a \in Arenas :
          /\ (Called({"insert"}) /\ last'.arena = a /\ ~last'.panic)
             => \A k \in Handles :
                   ~KeyEq(k, last'.ret) => HashMapGet(map'[a], k) = get(a, k)
          /\ (Called({"remove"}) /\ last'.arena = a)
             => \A k \in Handles :
                   ~KeyEq(k, last'.key) => HashMapGet(map'[a], k) = get(a, k) ]_vars

\* C13 (frame of insert and remove): a remove leaves get(k) as it was for
\* every key k other than the one removed, and an insert leaves get(k) as it
\* was for every key k other than the one it returns and for every key that
\* exists or is retired when it is called (it changes and revives none).
C13_Frame ==
    [][ \A a \in Arenas :
          /\ (Called({"insert"}) /\ last'.arena = a /\ ~last'.panic)
             => /\ \A k \in Handles :
                      ~KeyEq(k, last'.ret) => HashMapGet(map'[a], k) = get(a, k)
                /\ \A k \in issued[a] \cup removed[a] :
                      HashMapGet(map'[a], k) = get(a, k)
          /\ (Called({"remove"}) /\ last'.arena = a)
             => \A k \in Handles :
                   ~KeyEq(k, last'.key) => HashMapGet(map'[a], k) = get(a, k) ]_vars

\* C14 (get and get_mut): neither changes the live identities, the size or
\* the counter; get_mut(h) returns what get(h) returns, the value stored at
\* h's identity or None; get changes nothing at all; a write through
\* get_mut(h) changes the value at h only, and is what a get(h), get_mut(h)
\* or remove(h) called next returns.
C14_GetGetMut ==
    [][ \A a \in Arenas :
          /\ (Called({"get", "get_mut"}) /\ last'.arena = a)
             => /\ DOMAIN map'[a] = DOMAIN map[a]
                /\ HashMapLen(map'[a]) = len(a)
                /\ next'[a] = next[a]
                /\ last'.ret = IF last'.key.id \in LiveIds(a)
                               THEN Some(ValueAt(a, last'.key.id))
                               ELSE None
                /\ \A k \in Handles :
                      ~KeyEq(k, last'.key) => HashMapGet(map'[a], k) = get(a, k)
                /\ HashMapGet(map'[a], last'.key) =
                      IF /\ last'.op = "get_mut"
                         /\ last'.ret # None
                         /\ last'.write # None
                      THEN last'.write
                      ELSE get(a, last'.key)
          /\ (/\ last.op = "get_mut"
              /\ last.arena = a
              /\ last.ret # None
              /\ last.write # None
              /\ Called({"get", "get_mut", "remove"})
              /\ last'.arena = a
              /\ KeyEq(last'.key, last.key))
             => last'.ret = last.write ]_vars

C14_Witness ==
    /\ last.op = "get_mut"
    /\ last.ret # None
    /\ last.write # None
    /\ last.write # last.ret
    /\ get("A", last.key) = last.write
    /\ len("A") = 2

\* C15 (removed at most once): a remove(h) that follows a remove(h) which
\* returned a value returns None and changes nothing.
C15_RemovedAtMostOnce ==
    [][ \A a \in Arenas :
          (/\ Called({"remove"})
           /\ last'.arena = a
           /\ \E k \in removed[a] : KeyEq(k, last'.key))
          => /\ last'.ret = None
             /\ map'[a] = map[a]
             /\ next'[a] = next[a] ]_vars

\* C16 (live identities are below the counter): while the counter of an
\* instance has not wrapped, every identity stored in its map is below the
\* counter, so the key the next insert will store is absent from the map and
\* the insert replaces nothing.
C16_LiveBelowCounter ==
    \A a \in Arenas :
       ~Wrapped(a) =>
          /\ \A n \in LiveIds(a) : n < next[a].id
          /\ HashMapFind(map[a], next[a]) = {}
          /\ (last.op = "insert" /\ last.arena = a /\ ~last.panic)
                => /\ last.ret.id < next[a].id
                   /\ get(a, last.ret) = Some(last.value)

C16_Witness ==
    /\ ~Wrapped("A")
    /\ last.op = "insert"
    /\ ~last.panic
    /\ next["A"].id = UsizeMax
    /\ len("A") = 1
    /\ removed["A"] # {}

====
